---- MODULE Spec2Model ----
(***************************************************************************)
(* Model of the ingestion layer of kudwa-ai-engine: the calendar resolver  *)
(* (rootfi_period_to_dates), the two source adapters (_load_qb,            *)
(* _load_rootfi), the filename dispatcher (load_dataset), the insertion    *)
(* routine (add_records) over the financial-record table, and the upload   *)
(* endpoint (upload_dataset).                                              *)
(*                                                                         *)
(* Python strings that the code inspects (periods, dates, file names,      *)
(* metric names) are sequences of one-character strings, so that indexing, *)
(* split, lower and the substring test are computed as the code computes   *)
(* them.  Strings the code only copies (dataset ids) are TLA+ strings.     *)
(***************************************************************************)
EXTENDS Integers, Sequences, FiniteSets, TLC

VARIABLES
    period,     \* argument of rootfi_period_to_dates
    resolved,   \* its outcome: a pair of dates or the exception raised
    loadArgs,   \* arguments of load_dataset: ds_id, path, and the file's JSON rows
    loaded,     \* its outcome: records, or the exception raised and where
    store,      \* rows of the financial-record table (committed)
    prevAdd,    \* the add_records call before the last one: records and count
    lastAdd,    \* the last add_records call: records, count, per-record outcome
    response    \* the last upload_dataset response

vars == <<period, resolved, loadArgs, loaded, store, prevAdd, lastAdd, response>>

(***************************************************************************)
(* Python str primitives                                                   *)
(***************************************************************************)
Digits == {"0", "1", "2", "3", "4", "5", "6", "7", "8", "9"}

DigitVal(c) ==
    CASE c = "0" -> 0 [] c = "1" -> 1 [] c = "2" -> 2 [] c = "3" -> 3
      [] c = "4" -> 4 [] c = "5" -> 5 [] c = "6" -> 6 [] c = "7" -> 7
      [] c = "8" -> 8 [] c = "9" -> 9

\* int(s) succeeds: over the alphabet used here (no sign, blank or underscore)
\* that is a non-empty run of decimal digits.
IsDigits(s) == Len(s) > 0 /\ \A i \in 1..Len(s) : s[i] \in Digits

RECURSIVE ParseNat(_)
ParseNat(s) ==
    IF Len(s) = 0 THEN 0
    ELSE ParseNat(SubSeq(s, 1, Len(s) - 1)) * 10 + DigitVal(s[Len(s)])

\* s.startswith(p)
StartsWith(s, p) == Len(s) >= Len(p) /\ SubSeq(s, 1, Len(p)) = p

\* p in s
Contains(s, p) ==
    \E i \in 1..(Len(s) - Len(p) + 1) : SubSeq(s, i, i + Len(p) - 1) = p

\* s.split(sep) for a one-character separator: the list of parts
RECURSIVE Split(_, _)
Split(s, sep) ==
    IF \A i \in 1..Len(s) : s[i] # sep THEN <<s>>
    ELSE LET k == CHOOSE i \in 1..Len(s) :
                      s[i] = sep /\ \A j \in 1..(i - 1) : s[j] # sep
         IN  <<SubSeq(s, 1, k - 1)>> \o Split(SubSeq(s, k + 1, Len(s)), sep)

LowerChar(c) ==
    CASE c = "A" -> "a" [] c = "B" -> "b" [] c = "C" -> "c" [] c = "D" -> "d"
      [] c = "E" -> "e" [] c = "F" -> "f" [] c = "G" -> "g" [] c = "H" -> "h"
      [] c = "I" -> "i" [] c = "J" -> "j" [] c = "K" -> "k" [] c = "L" -> "l"
      [] c = "M" -> "m" [] c = "N" -> "n" [] c = "O" -> "o" [] c = "P" -> "p"
      [] c = "Q" -> "q" [] c = "R" -> "r" [] c = "S" -> "s" [] c = "T" -> "t"
      [] c = "U" -> "u" [] c = "V" -> "v" [] c = "W" -> "w" [] c = "X" -> "x"
      [] c = "Y" -> "y" [] c = "Z" -> "z" [] OTHER -> c

\* s.lower()
Lower(s) == [i \in 1..Len(s) |-> LowerChar(s[i])]

(***************************************************************************)
(* datetime.date                                                           *)
(***************************************************************************)
LeapYear(y) == y % 4 = 0 /\ (y % 100 # 0 \/ y % 400 = 0)

DaysInMonth(y, m) ==
    IF m \in {1, 3, 5, 7, 8, 10, 12} THEN 31
    ELSE IF m = 2 THEN (IF LeapYear(y) THEN 29 ELSE 28)
    ELSE 30

\* date(y, m, d) raises ValueError outside these ranges
DateValid(y, m, d) ==
    /\ y >= 1 /\ y <= 9999
    /\ m >= 1 /\ m <= 12
    /\ d >= 1 /\ d <= DaysInMonth(y, m)

Date(y, m, d) == [y |-> y, m |-> m, d |-> d]
NoDate == Date(0, 0, 0)

DateLE(a, b) ==
    \/ a.y < b.y
    \/ a.y = b.y /\ a.m < b.m
    \/ a.y = b.y /\ a.m = b.m /\ a.d <= b.d

\* Outcome of a call that yields a (start, end) pair or raises.
Ok(s, e) == [exc |-> "none", start |-> s, end |-> e]
Raise(x) == [exc |-> x, start |-> NoDate, end |-> NoDate]

\* datetime.fromisoformat(s).date() on the extended form YYYY-MM-DD; every
\* other string of the alphabet used here is rejected with ValueError.
FromIsoFormat(s) ==
    IF /\ Len(s) = 10
       /\ s[5] = "-" /\ s[8] = "-"
       /\ IsDigits(SubSeq(s, 1, 4)) /\ IsDigits(SubSeq(s, 6, 7))
       /\ IsDigits(SubSeq(s, 9, 10))
       /\ DateValid(ParseNat(SubSeq(s, 1, 4)), ParseNat(SubSeq(s, 6, 7)),
                    ParseNat(SubSeq(s, 9, 10)))
    THEN LET d == Date(ParseNat(SubSeq(s, 1, 4)), ParseNat(SubSeq(s, 6, 7)),
                       ParseNat(SubSeq(s, 9, 10)))
         IN  Ok(d, d)
    ELSE Raise("ValueError")

\* _parse_date: the text before the first "T", as an ISO date
_parse_date(s) == FromIsoFormat(Split(s, "T")[1])

(***************************************************************************)
(* Calendar resolver                                                       *)
(***************************************************************************)
\* months = {1: (1, 3), 2: (4, 6), 3: (7, 9), 4: (10, 12)}
QuarterMonths ==
    (1 :> <<1, 3>>) @@ (2 :> <<4, 6>>) @@ (3 :> <<7, 9>>) @@ (4 :> <<10, 12>>)

\* Mutant: the quarter's closing day is always the 30th.
rootfi_quarter_end_day_m(yr, end_month) == 30

\* The "simple last-day-of-month calculation" of the quarter branch.
rootfi_quarter_end_day(yr, end_month) ==
    IF end_month \in {1, 3, 5, 7, 8, 10, 12} THEN 31
    ELSE IF end_month = 2
         THEN (IF yr % 4 = 0 /\ (yr % 100 # 0 \/ yr % 400 = 0) THEN 29 ELSE 28)
         ELSE 30

rootfi_period_to_dates(p) ==
    IF StartsWith(p, <<"Q">>)
    THEN IF Len(p) < 2 THEN Raise("IndexError")                \* period[1]
         ELSE IF Len(Split(p, "-")) < 2 THEN Raise("IndexError") \* split("-")[1]
         ELSE LET q  == p[2]
                  yr == Split(p, "-")[2]
              IN  IF ~IsDigits(<<q>>) THEN Raise("ValueError")     \* int(q)
                  ELSE IF DigitVal(q) \notin DOMAIN QuarterMonths
                       THEN Raise("KeyError")
                  ELSE IF ~IsDigits(yr) THEN Raise("ValueError")   \* int(yr)
                  ELSE LET months == QuarterMonths[DigitVal(q)]
                           y      == ParseNat(yr)
                           day    == rootfi_quarter_end_day(y, months[2])
                       IN  IF ~DateValid(y, months[1], 1)
                              \/ ~DateValid(y, months[2], day)
                           THEN Raise("ValueError")
                           ELSE Ok(Date(y, months[1], 1),
                                   Date(y, months[2], day))
    ELSE IF Contains(p, <<"/">>)
    THEN LET parts == Split(p, "/")
         IN  IF Len(parts) # 2 THEN Raise("ValueError")        \* unpacking
             ELSE LET s == _parse_date(parts[1])
                      e == _parse_date(parts[2])
                  IN  IF s.exc # "none" THEN s
                      ELSE IF e.exc # "none" THEN e
                      ELSE Ok(s.start, e.start)
    ELSE _parse_date(p)

(***************************************************************************)
(* JSON values of a source row, and the Python values a record holds       *)
(***************************************************************************)
JAbsent == [t |-> "absent", n |-> 0, s |-> <<>>]   \* the key is not in the row
JNull   == [t |-> "null", n |-> 0, s |-> <<>>]     \* JSON null, Python None
JNum(k) == [t |-> "num", n |-> k, s |-> <<>>]
JStr(x) == [t |-> "str", n |-> 0, s |-> x]

\* row.get(key): None when the key is absent
Get(v) == IF v.t = "absent" THEN JNull ELSE v
\* row.get(key, dflt)
GetOr(v, dflt) == IF v.t = "absent" THEN dflt ELSE v

\* Outcome of an expression that yields a number or raises.
Val(k)    == [exc |-> "none", n |-> k]
NoVal(x)  == [exc |-> x, n |-> 0]

\* float(v) for a value that is present in the row
Float(v) ==
    CASE v.t = "num"  -> Val(v.n)
      [] v.t = "null" -> NoVal("TypeError")
      [] v.t = "str"  -> IF IsDigits(v.s) THEN Val(ParseNat(v.s))
                         ELSE NoVal("ValueError")

revenue == <<"r", "e", "v", "e", "n", "u", "e">>
expense == <<"e", "x", "p", "e", "n", "s", "e">>
USD == <<"U", "S", "D">>

\* FinancialRecord(...): id is None until the row is inserted
FinancialRecord(ds, ps, pe, metric, amount, currency, cat, sub, raw) ==
    [id |-> JNull, dataset_id |-> ds, period_start |-> ps, period_end |-> pe,
     metric |-> metric, amount |-> amount, currency |-> currency,
     category |-> cat, sub_category |-> sub, raw_source_id |-> raw]

\* Outcome of one loop iteration, and of a whole adapter run.
Recs(rs)      == [exc |-> "none", row |-> 0, recs |-> rs]
Failed(x, i)  == [exc |-> x, row |-> i, recs |-> <<>>]

(***************************************************************************)
(* Adapter A: _load_qb                                                     *)
(***************************************************************************)
\* Mutant: the expense record is built from the revenue column.
QbRow_m(row, ds_id) ==
    IF row.date.t = "absent" THEN Failed("KeyError", 0)          \* row["date"]
    ELSE IF row.date.t # "str" THEN Failed("AttributeError", 0)  \* s.split
    ELSE LET start == _parse_date(row.date.s)
             rev   == Float(GetOr(row.revenue, JNum(0)))
             exp   == Float(GetOr(row.revenue, JNum(0)))
             cur   == GetOr(row.currency, JStr(USD))
         IN  IF start.exc # "none" THEN Failed(start.exc, 0)
             ELSE IF rev.exc # "none" THEN Failed(rev.exc, 0)
             ELSE IF exp.exc # "none" THEN Failed(exp.exc, 0)
             ELSE Recs(<<FinancialRecord(ds_id, start.start, start.start,
                                         revenue, rev.n, cur, JNull, JNull,
                                         Get(row.id)),
                         FinancialRecord(ds_id, start.start, start.start,
                                         expense, exp.n, cur, JNull, JNull,
                                         Get(row.id))>>)

\* Body of the loop of _load_qb for one row.
QbRow(row, ds_id) ==
    IF row.date.t = "absent" THEN Failed("KeyError", 0)          \* row["date"]
    ELSE IF row.date.t # "str" THEN Failed("AttributeError", 0)  \* s.split
    ELSE LET start == _parse_date(row.date.s)
             rev   == Float(GetOr(row.revenue, JNum(0)))
             exp   == Float(GetOr(row.expenses, JNum(0)))
             cur   == GetOr(row.currency, JStr(USD))
         IN  IF start.exc # "none" THEN Failed(start.exc, 0)
             ELSE IF rev.exc # "none" THEN Failed(rev.exc, 0)
             ELSE IF exp.exc # "none" THEN Failed(exp.exc, 0)
             ELSE Recs(<<FinancialRecord(ds_id, start.start, start.start,
                                         revenue, rev.n, cur, JNull, JNull,
                                         Get(row.id)),
                         FinancialRecord(ds_id, start.start, start.start,
                                         expense, exp.n, cur, JNull, JNull,
                                         Get(row.id))>>)

\* Body of the loop of _load_rootfi for one row.
RootfiRow(row, ds_id) ==
    IF row.period.t = "absent" THEN Failed("KeyError", 0)        \* row["period"]
    ELSE IF row.period.t # "str" THEN Failed("AttributeError", 0)
    ELSE LET se == rootfi_period_to_dates(row.period.s)
         IN  IF se.exc # "none" THEN Failed(se.exc, 0)
             ELSE IF row.type.t = "absent" THEN Failed("KeyError", 0)
             ELSE IF row.type.t # "str" THEN Failed("AttributeError", 0)
             ELSE IF row.value.t = "absent" THEN Failed("KeyError", 0)
             ELSE LET amt == Float(row.value)
                  IN  IF amt.exc # "none" THEN Failed(amt.exc, 0)
                      ELSE Recs(<<FinancialRecord(
                                    ds_id, se.start, se.end, Lower(row.type.s),
                                    amt.n, GetOr(row.currency, JStr(USD)),
                                    Get(row.category), Get(row.sub_category),
                                    Get(row.uid))>>)

\* for row in data: ... recs.append(...); the first row that raises ends the
\* call and the records built so far are dropped with the frame.
RECURSIVE Loop(_, _, _, _)
Loop(adapter, data, ds_id, i) ==
    IF i > Len(data) THEN Recs(<<>>)
    ELSE LET r == IF adapter = "qb" THEN QbRow(data[i], ds_id)
                  ELSE RootfiRow(data[i], ds_id)
         IN  IF r.exc # "none" THEN Failed(r.exc, i)
             ELSE LET rest == Loop(adapter, data, ds_id, i + 1)
                  IN  IF rest.exc # "none" THEN rest
                      ELSE Recs(r.recs \o rest.recs)

_load_qb(data, ds_id) == Loop("qb", data, ds_id, 1)

_load_rootfi(data, ds_id) == Loop("rootfi", data, ds_id, 1)

(***************************************************************************)
(* Dispatcher: load_dataset                                                *)
(***************************************************************************)
\* Path.name: the final component of the path
PathName(path) == LET parts == Split(path, "/") IN parts[Len(parts)]

\* Mutant: the two tokens are tested in the other order.
SelectAdapter_m(path) ==
    IF Contains(Lower(PathName(path)), <<"r", "o", "o", "t", "f", "i">>)
    THEN "rootfi"
    ELSE IF Contains(Lower(PathName(path)), <<"q", "b">>) THEN "qb"
    ELSE "none"

\* The adapter the file name selects, "none" when it selects neither.
SelectAdapter(path) ==
    IF Contains(Lower(PathName(path)), <<"q", "b">>) THEN "qb"
    ELSE IF Contains(Lower(PathName(path)), <<"r", "o", "o", "t", "f", "i">>)
         THEN "rootfi"
    ELSE "none"

\* Outcome: the adapter used, the records or the exception and its row, and
\* for the dispatcher's own ValueError the file name its message carries.
load_dataset(ds_id, path, data) ==
    LET a == SelectAdapter(path)
        r == IF a = "qb" THEN _load_qb(data, ds_id)
             ELSE IF a = "rootfi" THEN _load_rootfi(data, ds_id)
             ELSE Failed("ValueError", 0)
    IN  [adapter |-> a, exc |-> r.exc, row |-> r.row, recs |-> r.recs,
         unsupported |-> IF a = "none" THEN PathName(path) ELSE <<>>]

(***************************************************************************)
(* The financial-record table and add_records                              *)
(*                                                                         *)
(* The table declares one key, the integer primary key id, and no other    *)
(* uniqueness constraint.  A record whose id is None is given the next     *)
(* rowid on INSERT; a record that carries an id already in the table fails *)
(* with IntegrityError.  Each element of a list is a distinct object that  *)
(* is new to the session, with every NOT NULL column set, as load_dataset  *)
(* builds them.                                                            *)
(***************************************************************************)
Ids(table) == {r.id.n : r \in table}

MaxOf(S) == CHOOSE x \in S : \A y \in S : y <= x

\* the rowid an INTEGER PRIMARY KEY column receives when none is given
NextRowId(table) == IF table = {} THEN 1 ELSE MaxOf(Ids(table)) + 1

\* session.add(rec); session.commit() raises IntegrityError
IntegrityError(table, rec) == rec.id.t = "num" /\ rec.id.n \in Ids(table)

\* the row that session.add(rec); session.commit() writes
Inserted(table, rec) ==
    IF rec.id.t = "num" THEN rec
    ELSE [rec EXCEPT !.id = JNum(NextRowId(table))]

AddResult(table, added, outcome) ==
    [table |-> table, added |-> added, outcome |-> outcome]

\* Mutant: the first IntegrityError ends the loop (the batch is abandoned).
RECURSIVE add_records_m(_, _)
add_records_m(table, records) ==
    IF records = <<>> THEN AddResult(table, 0, <<>>)
    ELSE IF IntegrityError(table, Head(records))
         THEN AddResult(table, 0, <<JNull>>)
         ELSE LET row  == Inserted(table, Head(records))
                  rest == add_records_m(table \cup {row}, Tail(records))
              IN  AddResult(rest.table, rest.added + 1,
                            <<row.id>> \o rest.outcome)

\* added, the table afterwards, and for each record in list order the id of
\* the row it was committed as (None when it was rolled back).
RECURSIVE add_records(_, _)
add_records(table, records) ==
    IF records = <<>> THEN AddResult(table, 0, <<>>)
    ELSE IF IntegrityError(table, Head(records))
         THEN LET rest == add_records(table, Tail(records))
              IN  AddResult(rest.table, rest.added, <<JNull>> \o rest.outcome)
         ELSE LET row  == Inserted(table, Head(records))
                  rest == add_records(table \cup {row}, Tail(records))
              IN  AddResult(rest.table, rest.added + 1,
                            <<row.id>> \o rest.outcome)

(***************************************************************************)
(* upload_dataset                                                          *)
(***************************************************************************)
\* main.py imports os, fastapi, sqlmodel and the app's own modules; the name
\* Path that upload_dataset evaluates is bound by none of them.
PathIsBound == FALSE

\* Outcome: the HTTP response and the table afterwards.  exc is the exception
\* the handler caught ("none" when it returned), row the adapter row at which
\* load_dataset raised it.
Response(status, exc, row, added, total, table) ==
    [status |-> status, exc |-> exc, row |-> row, added |-> added,
     total |-> total, table |-> table]

\* add_records(session, records) and the response, or the except clause.
upload_persist(records, table) ==
    IF records.exc # "none"
    THEN Response(500, records.exc, records.row, 0, 0, table)
    ELSE Response(200, "none", 0, add_records(table, records.recs).added,
                  Len(records.recs), add_records(table, records.recs).table)

upload_dataset(ds_id, file_path, exists, data, table) ==
    IF ~exists THEN Response(404, "HTTPException", 0, 0, 0, table)
    ELSE IF ~PathIsBound THEN Response(500, "NameError", 0, 0, 0, table)
    ELSE upload_persist(load_dataset(ds_id, file_path, data), table)

(***************************************************************************)
(* Inputs                                                                  *)
(***************************************************************************)
MaxRows  == 2    \* rows of an input file
MaxStore == 4    \* rows of the table

TimeSuffix == <<"T", "0", "0", ":", "0", "0", ":", "0", "0", "Z">>

\* Period expressions: quarter forms with every kind of quarter token and
\* year token, bare dates (valid and invalid, with and without a time
\* suffix), ranges in both orders, and strings of no form at all.
QuarterTokens ==
    {<<>>, <<"0">>, <<"1">>, <<"2">>, <<"3">>, <<"4">>, <<"5">>,
     <<"1", "0">>, <<"x">>}
YearTokens ==
    {<<"2", "0", "2", "3">>, <<"2", "0", "2", "4">>, <<"1", "9", "0", "0">>, <<"2", "0", "0", "0">>,
     <<"0", "0", "0", "0">>, <<"2", "0", "x", "4">>, <<>>}
QuarterPool ==
    {<<"Q">> \o q \o <<"-">> \o y : q \in QuarterTokens, y \in YearTokens}
        \cup {<<"Q">>, <<"Q", "1">>}

DateText(y, m, d) == y \o <<"-">> \o m \o <<"-">> \o d
DatePool ==
    {DateText(y, m, d) \o sfx :
        y \in {<<"2", "0", "2", "3">>, <<"2", "0", "2", "4">>},
        m \in {<<"0", "1">>, <<"0", "2">>, <<"0", "3">>, <<"1", "2">>,
               <<"1", "3">>},
        d \in {<<"0", "0">>, <<"0", "1">>, <<"2", "8">>, <<"2", "9">>,
               <<"3", "0">>, <<"3", "1">>},
        sfx \in {<<>>, TimeSuffix}}
RangeEnds ==
    {<<"2", "0", "2", "4", "-", "0", "2", "-", "0", "1">>,
     <<"2", "0", "2", "4", "-", "0", "2", "-", "2", "8">>,
     <<"2", "0", "2", "4", "-", "0", "3", "-", "0", "1">> \o TimeSuffix,
     <<"2", "0", "2", "3", "-", "1", "2", "-", "3", "1">>,
     <<"2", "0", "2", "4", "-", "0", "2", "-", "3", "0">>}
RangePool ==
    {a \o <<"/">> \o b : a \in RangeEnds, b \in RangeEnds}
        \cup {<<"2", "0", "2", "4", "-", "0", "2", "-", "0", "1">> \o <<"/">> \o <<"2", "0", "2", "4", "-", "0", "2", "-", "2", "8">>
                 \o <<"/">> \o <<"2", "0", "2", "4", "-", "0", "3", "-", "0", "1">>}
PeriodPool ==
    QuarterPool \cup DatePool \cup RangePool \cup {<<>>, <<"a", "b", "c">>}

\* Source rows.  A row of either shape has the other shape's keys absent.
QbJson(date, rev, exp, currency, id) ==
    [date |-> date, revenue |-> rev, expenses |-> exp, currency |-> currency,
     id |-> id, period |-> JAbsent, type |-> JAbsent, value |-> JAbsent,
     category |-> JAbsent, sub_category |-> JAbsent, uid |-> JAbsent]
RootfiJson(period_, type, value, currency, category, sub, uid) ==
    [date |-> JAbsent, revenue |-> JAbsent, expenses |-> JAbsent,
     currency |-> currency, id |-> JAbsent, period |-> period_, type |-> type,
     value |-> value, category |-> category, sub_category |-> sub,
     uid |-> uid]

QbRows ==
    {QbJson(JStr(<<"2", "0", "2", "4", "-", "0", "1", "-", "0", "1">>), JNum(100), JNum(40),
            JAbsent, JStr(<<"r", "1">>)),
     QbJson(JStr(<<"2", "0", "2", "4", "-", "0", "2", "-", "2", "9">> \o TimeSuffix), JAbsent, JAbsent,
            JAbsent, JAbsent),
     QbJson(JStr(<<"2", "0", "2", "4", "-", "0", "1", "-", "0", "1">>), JStr(<<"1", "2">>), JNum(7),
            JStr(<<"E", "U", "R">>), JStr(<<"r", "2">>)),
     QbJson(JStr(<<"2", "0", "2", "4", "-", "0", "1", "-", "0", "2">>), JNull, JNum(1), JAbsent, JAbsent),
     QbJson(JStr(<<"2", "0", "2", "4", "-", "1", "3", "-", "0", "1">>), JNum(1), JNum(1), JAbsent, JAbsent),
     QbJson(JAbsent, JNum(5), JNum(5), JAbsent, JStr(<<"r", "3">>))}

RootfiRows ==
    {RootfiJson(JStr(<<"Q", "1", "-", "2", "0", "2", "4">>), JStr(<<"P", "r", "o", "f", "i", "t">>), JNum(999),
                JAbsent, JAbsent, JAbsent, JStr(<<"u", "1">>)),
     RootfiJson(JStr(<<"2", "0", "2", "4", "-", "0", "2", "-", "0", "1", "/", "2", "0", "2", "4", "-", "0", "2", "-", "2", "8">>),
                JStr(revenue), JNum(5), JStr(<<"E", "U", "R">>),
                JStr(<<"o", "p", "s">>), JStr(<<"x">>), JAbsent),
     RootfiJson(JStr(<<"2", "0", "2", "4", "-", "0", "3", "-", "0", "1", "/", "2", "0", "2", "4", "-", "0", "2", "-", "0", "1">>),
                JStr(<<"E", "x", "p", "e", "n", "s", "e">>), JNum(7), JAbsent, JAbsent, JAbsent,
                JStr(<<"u", "2">>)),
     RootfiJson(JStr(<<"Q", "2", "-", "2", "0", "2", "4">>), JStr(<<>>), JNum(1), JAbsent,
                JAbsent, JAbsent, JAbsent),
     RootfiJson(JStr(<<"Q", "5", "-", "2", "0", "2", "4">>), JStr(revenue), JNum(1), JAbsent,
                JAbsent, JAbsent, JAbsent),
     RootfiJson(JAbsent, JStr(revenue), JNum(1), JAbsent, JAbsent, JAbsent,
                JAbsent),
     RootfiJson(JStr(<<"2", "0", "2", "4", "-", "0", "1", "-", "1", "5">> \o TimeSuffix), JStr(expense),
                JAbsent, JAbsent, JAbsent, JAbsent, JAbsent)}

RowPool == QbRows \cup RootfiRows

FilePool == UNION {[1..n -> RowPool] : n \in 0..MaxRows}

PathPool ==
    {<<"/", "d", "a", "t", "a", "/", "q", "b", "_", "1", ".", "j", "s", "o", "n">>,
     <<"/", "d", "a", "t", "a", "/", "m", "y", "_", "Q", "B", ".", "j", "s", "o", "n">>,
     <<"/", "d", "a", "t", "a", "/", "r", "o", "o", "t", "f", "i", "_", "1", ".", "j", "s", "o", "n">>,
     <<"/", "d", "a", "t", "a", "/", "R", "o", "o", "t", "F", "i", "_", "q", "b", ".", "j", "s", "o", "n">>,
     <<"/", "q", "b", "/", "d", "a", "t", "a", "_", "1", ".", "j", "s", "o", "n">>,
     <<"/", "q", "b", "/", "R", "O", "O", "T", "F", "I", ".", "j", "s", "o", "n">>,
     <<"/", "r", "o", "o", "t", "f", "i", "/", "x", ".", "j", "s", "o", "n">>}

DatasetIds == {"ds1", "ds2"}

\* Record lists handed to add_records: what load_dataset returns for a
\* one-row file of each shape, and lists holding records that carry an id.
QbFile     == <<QbJson(JStr(<<"2", "0", "2", "4", "-", "0", "1", "-", "0", "1">>), JNum(100), JNum(40),
                       JAbsent, JStr(<<"r", "1">>))>>
RootfiFile == <<RootfiJson(JStr(<<"Q", "1", "-", "2", "0", "2", "4">>), JStr(<<"P", "r", "o", "f", "i", "t">>),
                           JNum(999), JAbsent, JAbsent, JAbsent,
                           JStr(<<"u", "1">>))>>
QbPath     == <<"/", "d", "a", "t", "a", "/", "q", "b", "_", "1", ".", "j", "s", "o", "n">>
RootfiPath == <<"/", "d", "a", "t", "a", "/", "r", "o", "o", "t", "f", "i", "_", "1", ".", "j", "s", "o", "n">>

QbBatch     == load_dataset("ds1", QbPath, QbFile).recs
RootfiBatch == load_dataset("ds1", RootfiPath, RootfiFile).recs
WithId(rec, k) == [rec EXCEPT !.id = JNum(k)]

BatchPool ==
    {QbBatch,
     RootfiBatch,
     <<WithId(QbBatch[1], 1)>>,
     <<WithId(QbBatch[2], 3)>>,
     <<RootfiBatch[1], WithId(QbBatch[1], 1), QbBatch[2]>>}

\* Files named in upload requests: well-formed ones of each shape, one whose
\* second row lacks its period, and one whose name selects no adapter.
UploadPool ==
    {[path |-> QbPath, data |-> QbFile],
     [path |-> RootfiPath, data |-> RootfiFile],
     [path |-> RootfiPath,
      data |-> RootfiFile \o <<RootfiJson(JAbsent, JStr(revenue), JNum(1),
                                          JAbsent, JAbsent, JAbsent, JAbsent)>>],
     [path |-> <<"/", "d", "a", "t", "a", "/", "x", ".", "j", "s", "o", "n">>, data |-> QbFile]}

(***************************************************************************)
(* State                                                                   *)
(***************************************************************************)
Pending   == Raise("pending")
NotLoaded ==
    [adapter |-> "none", exc |-> "pending", row |-> 0, recs |-> <<>>,
     unsupported |-> <<>>]
NoArgs    == [ds_id |-> "ds1", path |-> <<>>, data |-> <<>>]
NoAdd     == [called |-> FALSE, records |-> <<>>, added |-> 0]
NoLastAdd ==
    [called |-> FALSE, records |-> <<>>, added |-> 0, outcome |-> <<>>,
     before |-> {}]
NoResponse ==
    [called |-> FALSE, ds_id |-> "ds1", path |-> <<>>, data |-> <<>>,
     exists |-> FALSE, status |-> 0, exc |-> "none", row |-> 0, added |-> 0,
     total |-> 0, before |-> {}]

\* A fresh database: create_db_and_tables has run, nothing is stored.
Init ==
    /\ period = <<>> /\ resolved = Pending
    /\ loadArgs = NoArgs /\ loaded = NotLoaded
    /\ store = {}
    /\ prevAdd = NoAdd /\ lastAdd = NoLastAdd
    /\ response = NoResponse

\* One add_records call on a session of the table.
AddRecords ==
    \E records \in BatchPool :
        /\ Cardinality(store) + Len(records) <= MaxStore
        /\ \E r \in {add_records(store, records)} :
               /\ store' = r.table
               /\ lastAdd' = [called |-> TRUE, records |-> records,
                              added |-> r.added, outcome |-> r.outcome,
                              before |-> store]
        /\ prevAdd' = [called |-> lastAdd.called, records |-> lastAdd.records,
                       added |-> lastAdd.added]
        /\ response' = NoResponse
        /\ UNCHANGED <<period, resolved, loadArgs, loaded>>

\* One POST /datasets/{ds_id} request.
UploadDataset ==
    \E ds_id \in DatasetIds, f \in UploadPool, exists \in BOOLEAN :
        /\ Cardinality(store) + 2 * Len(f.data) <= MaxStore
        /\ \E r \in {upload_dataset(ds_id, f.path, exists, f.data, store)} :
               /\ store' = r.table
               /\ response' = [called |-> TRUE, ds_id |-> ds_id,
                               path |-> f.path, data |-> f.data,
                               exists |-> exists, status |-> r.status,
                               exc |-> r.exc, row |-> r.row,
                               added |-> r.added, total |-> r.total,
                               before |-> store]
        /\ prevAdd' = NoAdd /\ lastAdd' = NoLastAdd
        /\ UNCHANGED <<period, resolved, loadArgs, loaded>>

Next == AddRecords \/ UploadDataset

Spec == Init /\ [][Next]_vars

\* The calendar resolver applied to one period expression.
InitResolve ==
    /\ period \in PeriodPool /\ resolved = Pending
    /\ loadArgs = NoArgs /\ loaded = NotLoaded
    /\ store = {}
    /\ prevAdd = NoAdd /\ lastAdd = NoLastAdd
    /\ response = NoResponse

Resolve ==
    /\ resolved.exc = "pending"
    /\ resolved' = rootfi_period_to_dates(period)
    /\ UNCHANGED <<period, loadArgs, loaded, store, prevAdd, lastAdd, response>>

SpecResolve == InitResolve /\ [][Resolve]_vars

\* load_dataset applied to one file.
InitLoad ==
    /\ period = <<>> /\ resolved = Pending
    /\ loadArgs \in [ds_id : DatasetIds, path : PathPool, data : FilePool]
    /\ loaded = NotLoaded
    /\ store = {}
    /\ prevAdd = NoAdd /\ lastAdd = NoLastAdd
    /\ response = NoResponse

LoadDataset ==
    /\ loaded.exc = "pending"
    /\ loaded' = load_dataset(loadArgs.ds_id, loadArgs.path, loadArgs.data)
    /\ UNCHANGED <<period, resolved, loadArgs, store, prevAdd, lastAdd, response>>

SpecLoad == InitLoad /\ [][LoadDataset]_vars

(***************************************************************************)
(* Properties of add_records and the table (specification Spec)            *)
(***************************************************************************)
\* The identity under which the insertion contract calls two records the same.
Identity(r) ==
    <<r.dataset_id, r.metric, r.period_start, r.period_end, r.raw_source_id>>

\* C1: two add_records calls in a row with the same non-empty list of records
\* return a positive count the first time and 0 the second time.
C1_DedupIdempotence ==
    (/\ prevAdd.called /\ lastAdd.called
     /\ lastAdd.records # <<>>
     /\ lastAdd.records = prevAdd.records)
        => (prevAdd.added > 0 /\ lastAdd.added = 0)

\* C2: the table never holds two distinct rows that agree on
\* (dataset_id, metric, period_start, period_end, raw_source_id).
C2_AtMostOncePerIdentity ==
    \A a \in store : \A b \in store : Identity(a) = Identity(b) => a = b

\* The positions of the last call's list whose record was committed.
Persisted == {i \in 1..Len(lastAdd.outcome) : lastAdd.outcome[i].t = "num"}

QuarterNumber(p) == Tail(Split(p, "-")[1])

\* A quarter expression whose quarter number is not one of 1, 2, 3, 4.
BadQuarter(p) ==
    /\ StartsWith(p, <<"Q">>) /\ Contains(p, <<"-">>)
    /\ QuarterNumber(p) \notin {<<"1">>, <<"2">>, <<"3">>, <<"4">>}

\* A date-shaped expression (dddd-dd-dd, with or without a time suffix) that
\* names no calendar day.
BadDate(p) ==
    /\ p \in DatePool
    /\ ~DateValid(ParseNat(SubSeq(p, 1, 4)), ParseNat(SubSeq(p, 6, 7)),
                  ParseNat(SubSeq(p, 9, 10)))

\* C5: for an expression whose quarter number is not 1..4, whose date is
\* malformed, or which is empty, rootfi_period_to_dates fails with an error
\* and never returns a date range.  (What it raises there carries another
\* message than load_dataset's "Unsupported dataset format" error, so once
\* the call raises, the two are told apart.)
C5_MalformedPeriod ==
    (/\ resolved.exc # "pending"
     /\ (period = <<>> \/ BadQuarter(period) \/ BadDate(period)))
        => resolved.exc # "none"

\* Q<n>-<YYYY> with n in 1..4 and a year of four digits (1000..9999).
IsQuarterOfYear(p) ==
    /\ Len(p) = 7
    /\ p[1] = "Q" /\ p[2] \in {"1", "2", "3", "4"} /\ p[3] = "-"
    /\ IsDigits(SubSeq(p, 4, 7))
    /\ ParseNat(SubSeq(p, 4, 7)) >= 1000

QuarterStartMonth == <<1, 4, 7, 10>>
QuarterEndMonth   == <<3, 6, 9, 12>>
QuarterEndDay     == <<31, 30, 30, 31>>

\* C6: "Q<n>-<Y>" resolves to the first day of the quarter's first month and
\* the last calendar day of its last month (31 March, 30 June, 30 September,
\* 31 December) of year Y, so start.day = 1 and start <= end.
C6_QuarterResolution ==
    (resolved.exc # "pending" /\ IsQuarterOfYear(period)) =>
        LET n == DigitVal(period[2])
            Y == ParseNat(SubSeq(period, 4, 7))
        IN  /\ resolved.exc = "none"
            /\ resolved.start = Date(Y, QuarterStartMonth[n], 1)
            /\ resolved.end = Date(Y, QuarterEndMonth[n], QuarterEndDay[n])
            /\ resolved.end.d = DaysInMonth(Y, QuarterEndMonth[n])
            /\ resolved.start.d = 1
            /\ DateLE(resolved.start, resolved.end)

\* C6 witness: Q4-2024 has been resolved to 1 October .. 31 December 2024.
C6_Witness ==
    /\ period = <<"Q", "4", "-", "2", "0", "2", "4">>
    /\ resolved = Ok(Date(2024, 10, 1), Date(2024, 12, 31))

(***************************************************************************)
(* Properties of load_dataset and the adapters (specification SpecLoad)    *)
(***************************************************************************)
\* C4: every record load_dataset returns has period_start <= period_end.
C4_PeriodOrdered ==
    loaded.exc = "none" =>
        \A i \in 1..Len(loaded.recs) :
            DateLE(loaded.recs[i].period_start, loaded.recs[i].period_end)

\* C7: every record load_dataset returns has a non-empty metric: "revenue" or
\* "expense" from Adapter A, the lowercased type of the row from Adapter B.
C7_MetricNonEmpty ==
    loaded.exc = "none" =>
        \A i \in 1..Len(loaded.recs) :
            /\ loaded.recs[i].metric # <<>>
            /\ loaded.adapter = "qb" =>
                   loaded.recs[i].metric \in {revenue, expense}
            /\ loaded.adapter = "rootfi" =>
                   loaded.recs[i].metric = Lower(loadArgs.data[i].type.s)

\* The file name: the characters after the last "/" of the path.
NameOf(path) ==
    LET slashes == {i \in 1..Len(path) : path[i] = "/"}
    IN  IF slashes = {} THEN path
        ELSE SubSeq(path, MaxOf(slashes) + 1, Len(path))

\* tok occurs in name when letter case is ignored.
HasToken(name, tok) ==
    \E i \in 0..(Len(name) - Len(tok)) :
        \A j \in 1..Len(tok) : LowerChar(name[i + j]) = tok[j]

\* C8: load_dataset looks at the file name only, ignoring case, first for
\* "qb" and then for "rootfi": a name with "qb" goes to Adapter A (also when
\* it has "rootfi" too), a name with "rootfi" and no "qb" goes to Adapter B,
\* and a name with neither fails with the unsupported-format error, which
\* names the file, and yields no records.
C8_DispatchByName ==
    loaded.exc # "pending" =>
        LET name == NameOf(loadArgs.path)
            out  == [exc |-> loaded.exc, row |-> loaded.row,
                     recs |-> loaded.recs]
        IN  /\ HasToken(name, <<"q", "b">>) =>
                   /\ loaded.adapter = "qb"
                   /\ out = _load_qb(loadArgs.data, loadArgs.ds_id)
            /\ (HasToken(name, <<"r", "o", "o", "t", "f", "i">>)
                    /\ ~HasToken(name, <<"q", "b">>)) =>
                   /\ loaded.adapter = "rootfi"
                   /\ out = _load_rootfi(loadArgs.data, loadArgs.ds_id)
            /\ (~HasToken(name, <<"r", "o", "o", "t", "f", "i">>)
                    /\ ~HasToken(name, <<"q", "b">>)) =>
                   /\ loaded.adapter = "none"
                   /\ loaded.exc = "ValueError"
                   /\ loaded.unsupported = name
                   /\ loaded.recs = <<>>

\* C8 witness: a file whose name holds both tokens, in upper and lower case,
\* under a directory, has been routed to Adapter A.
C8_Witness ==
    /\ loaded.exc # "pending"
    /\ HasToken(NameOf(loadArgs.path), <<"q", "b">>)
    /\ HasToken(NameOf(loadArgs.path), <<"r", "o", "o", "t", "f", "i">>)
    /\ NameOf(loadArgs.path) # Lower(NameOf(loadArgs.path))
    /\ loaded.adapter = "qb"

DigitChar(n) ==
    CASE n = 0 -> "0" [] n = 1 -> "1" [] n = 2 -> "2" [] n = 3 -> "3"
      [] n = 4 -> "4" [] n = 5 -> "5" [] n = 6 -> "6" [] n = 7 -> "7"
      [] n = 8 -> "8" [] n = 9 -> "9"

\* date.isoformat(): YYYY-MM-DD
IsoFormat(d) ==
    <<DigitChar(d.y \div 1000), DigitChar((d.y \div 100) % 10),
      DigitChar((d.y \div 10) % 10), DigitChar(d.y % 10), "-",
      DigitChar(d.m \div 10), DigitChar(d.m % 10), "-",
      DigitChar(d.d \div 10), DigitChar(d.d % 10)>>

\* A valid row of the single-date source: a date that names a calendar day
\* (a time suffix allowed), and revenue and expenses numbers or absent.
ValidQbRow(row) ==
    /\ row.date.t = "str"
    /\ Len(row.date.s) >= 10
    /\ (Len(row.date.s) > 10 => row.date.s[11] = "T")
    /\ LET s == row.date.s
       IN  /\ IsDigits(SubSeq(s, 1, 4)) /\ s[5] = "-"
           /\ IsDigits(SubSeq(s, 6, 7)) /\ s[8] = "-"
           /\ IsDigits(SubSeq(s, 9, 10))
           /\ DateValid(ParseNat(SubSeq(s, 1, 4)), ParseNat(SubSeq(s, 6, 7)),
                        ParseNat(SubSeq(s, 9, 10)))
    /\ row.revenue.t \in {"num", "absent"}
    /\ row.expenses.t \in {"num", "absent"}

\* The amount expected of a column: its number, 0.0 when absent.
AmountOf(v) == IF v.t = "absent" THEN 0 ELSE v.n

\* C9: for k valid rows _load_qb returns 2k records in row order, a "revenue"
\* record then an "expense" record per row, with the row's amounts (0.0 when
\* absent), both dates the row's date, the row's currency ("USD" when absent),
\* the row's id as raw_source_id and the caller's dataset id.
C9_QbExpansion ==
    (/\ loaded.adapter = "qb"
     /\ \A k \in 1..Len(loadArgs.data) : ValidQbRow(loadArgs.data[k])) =>
        /\ loaded.exc = "none"
        /\ Len(loaded.recs) = 2 * Len(loadArgs.data)
        /\ \A k \in 1..Len(loadArgs.data) :
               LET row == loadArgs.data[k]
                   rev == loaded.recs[2 * k - 1]
                   exp == loaded.recs[2 * k]
               IN  /\ rev.metric = revenue /\ exp.metric = expense
                   /\ rev.amount = AmountOf(row.revenue)
                   /\ exp.amount = AmountOf(row.expenses)
                   /\ \A r \in {rev, exp} :
                          /\ r.period_start = r.period_end
                          /\ IsoFormat(r.period_start) = SubSeq(row.date.s, 1, 10)
                          /\ r.currency = (IF row.currency.t = "absent"
                                           THEN JStr(USD) ELSE row.currency)
                          /\ r.raw_source_id = (IF row.id.t = "absent"
                                                THEN JNull ELSE row.id)
                          /\ r.dataset_id = loadArgs.ds_id
                          /\ r.id = JNull

\* C9 witness: a two-row file of valid rows, the revenue and expenses of one
\* of them absent, has been expanded into four records.
C9_Witness ==
    /\ loaded.adapter = "qb"
    /\ loaded.exc = "none"
    /\ Len(loadArgs.data) = 2
    /\ \A k \in 1..2 : ValidQbRow(loadArgs.data[k])
    /\ loadArgs.data[1].revenue.t = "num"
    /\ loadArgs.data[1].revenue.n # loadArgs.data[1].expenses.n
    /\ loadArgs.data[2].revenue.t = "absent"
    /\ loadArgs.data[2].currency.t = "absent"
    /\ Len(loaded.recs) = 4

(***************************************************************************)
(* Properties of upload_dataset (specification Spec)                       *)
(***************************************************************************)
\* C10: upload_dataset parses the whole file with load_dataset before the
\* first add_records call: for a file with a malformed row or an unsupported
\* name the request fails with load_dataset's error, raised at the first bad
\* row, and the table is as it was.
C10_WholeFileAbort ==
    (/\ response.called /\ response.exists
     /\ load_dataset(response.ds_id, response.path, response.data).exc # "none")
        => /\ response.status = 500
           /\ response.exc =
                  load_dataset(response.ds_id, response.path, response.data).exc
           /\ response.row =
                  load_dataset(response.ds_id, response.path, response.data).row
           /\ store = response.before

====
